---- MODULE Spec2Model ----
(***************************************************************************)
(* Model of Tools/_theft.py: the Item-block merge tool.                    *)
(*                                                                         *)
(* Text is a sequence of tokens.  A token is either one character          *)
(* ("\n", "\r", "\f", " ", "\t", ">", "/", "s") or a literal that the      *)
(* regular expressions of the program match as a unit ("<Item", "</Item",  *)
(* "<Fabricate", ..., an identifier="..." attribute, a word of content).   *)
(* The closing tag </Item> is the two tokens "</Item", ">" because the     *)
(* attribute class [^>]* stops at the character ">" wherever it stands.    *)
(***************************************************************************)
EXTENDS Integers, Sequences, FiniteSets, TLC

\* ------------------------------------------------------------------ bounds
MaxTargets == 2
MaxSources == 1
MaxSegs == 3

\* ------------------------------------------------------------------ tokens
\* no identifier="..." attribute
NoIdent == "NoIdent"

\* an optional value: None, or Some(v)
None == <<>>

Some(v) == <<v>>

IdentOf(tok) ==
  CASE tok = "identifier=a" -> "a"
    [] tok = "identifier=b" -> "b"
    [] OTHER -> NoIdent

\* \s of the re module (str patterns): every character str.isspace() accepts
IsSpace(c) == c \in {" ", "\t", "\n", "\r", "\f"}

\* the line boundaries of str.splitlines()
IsLineBreak(c) == c \in {"\n", "\r", "\f"}

\* tokens whose first character is a word character (\w), for \b
IsWordStart(c) == c \in {"s", "old", "new", "more", "identifier=a", "identifier=b"}

\* ------------------------------------------------------------ str helpers
RECURSIVE lstrip(_)
lstrip(text) ==
  IF text = <<>> THEN <<>>
  ELSE IF IsSpace(Head(text)) THEN lstrip(Tail(text)) ELSE text

RECURSIVE rstrip(_)
rstrip(text) ==
  IF text = <<>> THEN <<>>
  ELSE IF IsSpace(text[Len(text)]) THEN rstrip(SubSeq(text, 1, Len(text) - 1))
       ELSE text

strip(text) == rstrip(lstrip(text))

\* re.sub(r'\s+', ' ', text)
RECURSIVE collapse(_)
collapse(text) ==
  IF text = <<>> THEN <<>>
  ELSE IF IsSpace(Head(text)) THEN <<" ">> \o collapse(lstrip(text))
       ELSE <<Head(text)>> \o collapse(Tail(text))

normalize_whitespace(text) == collapse(strip(text))

\* index of the first line boundary of text, 0 when there is none
RECURSIVE FirstBreak(_, _)
FirstBreak(text, p) ==
  IF p > Len(text) THEN 0
  ELSE IF IsLineBreak(text[p]) THEN p ELSE FirstBreak(text, p + 1)

\* length of the line boundary at k: "\r\n" is one boundary
BreakLen(text, k) ==
  IF text[k] = "\r" /\ k < Len(text) /\ text[k + 1] = "\n" THEN 2 ELSE 1

\* str.splitlines(): no trailing empty line after a final boundary
RECURSIVE splitlines(_)
splitlines(text) ==
  IF text = <<>> THEN <<>>
  ELSE LET k == FirstBreak(text, 1) IN
       IF k = 0 THEN <<text>>
       ELSE <<SubSeq(text, 1, k - 1)>>
            \o splitlines(SubSeq(text, k + BreakLen(text, k), Len(text)))

\* str.splitlines(keepends=True)
RECURSIVE splitlines_keepends(_)
splitlines_keepends(text) ==
  IF text = <<>> THEN <<>>
  ELSE LET k == FirstBreak(text, 1) IN
       IF k = 0 THEN <<text>>
       ELSE LET e == k + BreakLen(text, k) - 1 IN
            <<SubSeq(text, 1, e)>> \o splitlines_keepends(SubSeq(text, e + 1, Len(text)))

\* "\n".join(lines)
RECURSIVE join(_)
join(lines) ==
  IF lines = <<>> THEN <<>>
  ELSE IF Len(lines) = 1 THEN lines[1]
       ELSE lines[1] \o <<"\n">> \o join(Tail(lines))

reindent(text, indent) ==
  LET lines == splitlines(text) IN
  join([k \in 1..Len(lines) |->
          IF strip(lines[k]) # <<>> THEN indent \o lines[k] ELSE <<>>])

\* text.replace('\r\n', '\n').replace('\r', '\n')
replace_cr(text) ==
  LET F[k \in 0..Len(text)] ==
        IF k = 0 THEN <<>>
        ELSE IF text[k] = "\r" /\ k < Len(text) /\ text[k + 1] = "\n" THEN F[k - 1]
             ELSE IF text[k] = "\r" THEN F[k - 1] \o <<"\n">>
                  ELSE F[k - 1] \o <<text[k]>>
  IN F[Len(text)]

\* open(path, 'r').read(): universal newlines turn "\r\n" and "\r" into "\n"
read(bytes) == replace_cr(bytes)

\* os.linesep of the platform the backslash paths of the program belong to
linesep == <<"\r", "\n">>

\* --------------------------------------------------------------- regexes
\* index of the first token of toks at or after p, 0 when there is none
RECURSIVE FirstAt(_, _, _)
FirstAt(text, p, toks) ==
  IF p > Len(text) THEN 0
  ELSE IF text[p] \in toks THEN p ELSE FirstAt(text, p + 1, toks)

\* index of the first tag toks followed by ">" at or after p, 0 when none
RECURSIVE FirstCloseAt(_, _, _)
FirstCloseAt(text, p, toks) ==
  IF p >= Len(text) THEN 0
  ELSE IF text[p] \in toks /\ text[p + 1] = ">" THEN p
       ELSE FirstCloseAt(text, p + 1, toks)

\* end of the run of [ \t] that starts at p
RECURSIVE SkipIndent(_, _)
SkipIndent(text, p) ==
  IF p <= Len(text) /\ text[p] \in {" ", "\t"} THEN SkipIndent(text, p + 1) ELSE p

\* "^" under re.MULTILINE: the start of the text or right after "\n"
AtLineStart(text, p) == p = 1 \/ text[p - 1] = "\n"

NoMatch == [start |-> 0]

\* ITEM_BLOCK_REGEX tried at position p:
\*   ^(?P<indent>[ \t]*)<Item(?P<attrs>[^>]*)>(?P<inner>.*?)</Item>
ItemMatchAt(text, p) ==
  IF ~AtLineStart(text, p) THEN NoMatch
  ELSE LET q == SkipIndent(text, p) IN
       IF q > Len(text) \/ text[q] # "<Item" THEN NoMatch
       ELSE LET g == FirstAt(text, q + 1, {">"}) IN
            IF g = 0 THEN NoMatch
            ELSE LET h == FirstCloseAt(text, g + 1, {"</Item"}) IN
                 IF h = 0 THEN NoMatch
                 ELSE [start  |-> p,
                       stop   |-> h + 1,
                       indent |-> SubSeq(text, p, q - 1),
                       attrs  |-> SubSeq(text, q + 1, g - 1),
                       inner  |-> SubSeq(text, g + 1, h - 1)]

\* ITEM_BLOCK_REGEX.finditer(text): leftmost, non-overlapping, in order
RECURSIVE finditer(_, _)
finditer(text, p) ==
  IF p > Len(text) THEN <<>>
  ELSE LET m == ItemMatchAt(text, p) IN
       IF m = NoMatch THEN finditer(text, p + 1)
       ELSE <<m>> \o finditer(text, m.stop + 1)

\* IDENTIFIER_REGEX.search(attrs): the first identifier="..." of attrs, or NoIdent
RECURSIVE identifier_search(_)
identifier_search(attrs) ==
  IF attrs = <<>> THEN NoIdent
  ELSE IF IdentOf(Head(attrs)) # NoIdent THEN IdentOf(Head(attrs))
       ELSE identifier_search(Tail(attrs))

ComponentOpen == {"<Fabricate", "<Deconstruct"}
ComponentClose == {"</Fabricate", "</Deconstruct"}

\* REMOVE_COMPONENTS_REGEX.sub('', text):
\*   <(?:Fabricate|Deconstruct)\b.*?</(?:Fabricate|Deconstruct)>
RECURSIVE remove_components(_)
remove_components(text) ==
  IF text = <<>> THEN <<>>
  ELSE LET h == IF Head(text) \in ComponentOpen /\ Len(text) >= 2
                   /\ ~IsWordStart(text[2])
                THEN FirstCloseAt(text, 2, ComponentClose) ELSE 0 IN
       IF h = 0 THEN <<Head(text)>> \o remove_components(Tail(text))
       ELSE remove_components(SubSeq(text, h + 2, Len(text)))

\* ---------------------------------------------------------- source catalog
\* the body of the loop over ITEM_BLOCK_REGEX.finditer(content)
RECURSIVE catalog_of_matches(_, _)
catalog_of_matches(matches, items) ==
  IF matches = <<>> THEN items
  ELSE LET m == Head(matches)
           ident == identifier_search(m.attrs)
           cleaned_inner == strip(remove_components(m.inner))
       IN catalog_of_matches(Tail(matches),
            IF ident = NoIdent THEN items
            ELSE [k \in DOMAIN items \cup {ident} |->
                    IF k = ident THEN cleaned_inner ELSE items[k]])

\* extract_items_from_src over the listing files; readable[k] tells whether
\* open()/read() of file k succeeds (a failure is logged and the file skipped)
RECURSIVE extract_items_from_src(_, _, _)
extract_items_from_src(files, readable, items) ==
  IF files = <<>> THEN items
  ELSE extract_items_from_src(Tail(files), Tail(readable),
         IF Head(readable)
         THEN catalog_of_matches(finditer(read(Head(files)), 1), items)
         ELSE items)

EmptyItems == [k \in {} |-> <<>>]

\* ------------------------------------------------------------ merge engine
\* line 100: the identifier is recorded before the contents are compared
record_used(used_ids, ident, same) == used_ids \cup {ident}

\* update_tar_file.replacer: the replacement text of one match, and used_ids
replacer(group0, m, src_items, used_ids) ==
  LET ident == identifier_search(m.attrs) IN
  IF ident = NoIdent \/ ident \notin DOMAIN src_items
  THEN [text |-> group0, used |-> used_ids, replaced |-> FALSE]
  ELSE LET src_inner == src_items[ident]
           same == normalize_whitespace(m.inner) = normalize_whitespace(src_inner)
           new_inner == reindent(src_inner, m.indent \o <<"\t">>)
       IN IF same
          THEN [text |-> group0, used |-> record_used(used_ids, ident, same),
                replaced |-> FALSE]
          ELSE [text |-> m.indent \o <<"<Item">> \o m.attrs \o <<">">> \o linesep
                         \o new_inner \o linesep \o m.indent \o <<"</Item", ">">>,
                used |-> record_used(used_ids, ident, same),
                replaced |-> TRUE]

\* ITEM_BLOCK_REGEX.sub(replacer, original), from position p on
RECURSIVE item_sub(_, _, _, _)
item_sub(text, p, src_items, used_ids) ==
  IF p > Len(text) THEN [text |-> <<>>, used |-> used_ids, replaced |-> 0]
  ELSE LET m == ItemMatchAt(text, p) IN
       IF m = NoMatch
       THEN LET r == item_sub(text, p + 1, src_items, used_ids) IN
            [text |-> <<text[p]>> \o r.text, used |-> r.used, replaced |-> r.replaced]
       ELSE LET rep == replacer(SubSeq(text, m.start, m.stop), m, src_items, used_ids)
                r == item_sub(text, m.stop + 1, src_items, rep.used)
            IN [text |-> rep.text \o r.text, used |-> r.used,
                replaced |-> r.replaced + (IF rep.replaced THEN 1 ELSE 0)]

\* is_changed comparing the raw texts
is_changed_raw(original, modified) == original # modified

\* line 122: the change flag compares the whitespace-normalized texts
is_changed(original, modified) ==
  normalize_whitespace(original) # normalize_whitespace(modified)

\* update_tar_file(tar_path, src_items, used_ids); bytes is the file's content,
\* readable whether open()/read() succeeds
update_tar_file(bytes, readable, src_items, used_ids) ==
  IF ~readable
  THEN [original |-> <<>>, modified |-> <<>>, changed |-> FALSE, used |-> used_ids]
  ELSE LET original == read(bytes)
           subbed == item_sub(original, 1, src_items, used_ids)
           modified == reindent(replace_cr(subbed.text), <<>>)
       IN [original |-> original, modified |-> modified,
           changed |-> is_changed(original, modified), used |-> subbed.used]

\* ------------------------------------------------------------ diff / report
\* length of the common run of a from i and b from j within a[..ahi], b[..bhi]
RECURSIVE RunLen(_, _, _, _, _, _)
RunLen(a, i, ahi, b, j, bhi) ==
  IF i > ahi \/ j > bhi \/ a[i] # b[j] THEN 0
  ELSE 1 + RunLen(a, i + 1, ahi, b, j + 1, bhi)

\* difflib.SequenceMatcher.find_longest_match: the longest common run, the one
\* starting earliest in a, then earliest in b, among the longest
find_longest_match(a, alo, ahi, b, blo, bhi) ==
  LET cands == {<<i, j>> \in (alo..ahi) \X (blo..bhi) : a[i] = b[j]}
      len(c) == RunLen(a, c[1], ahi, b, c[2], bhi)
  IN IF cands = {} THEN <<alo, blo, 0>>
     ELSE LET best == CHOOSE c \in cands :
                        \A d \in cands :
                          \/ len(c) > len(d)
                          \/ /\ len(c) = len(d)
                             /\ (c[1] < d[1] \/ (c[1] = d[1] /\ c[2] <= d[2]))
          IN <<best[1], best[2], len(best)>>

\* difflib.SequenceMatcher.get_matching_blocks, as the set of matched pairs
RECURSIVE matching_pairs(_, _, _, _, _, _)
matching_pairs(a, alo, ahi, b, blo, bhi) ==
  IF alo > ahi \/ blo > bhi THEN {}
  ELSE LET x == find_longest_match(a, alo, ahi, b, blo, bhi) IN
       IF x[3] = 0 THEN {}
       ELSE matching_pairs(a, alo, x[1] - 1, b, blo, x[2] - 1)
            \cup {<<x[1] + d, x[2] + d>> : d \in 0..(x[3] - 1)}
            \cup matching_pairs(a, x[1] + x[3], ahi, b, x[2] + x[3], bhi)

\* generate_diff(original, modified, filename): the "-" lines (line numbers of
\* original) and the "+" lines (line numbers of modified) of the unified diff
generate_diff(original, modified, filename) ==
  LET a == splitlines_keepends(original)
      b == splitlines_keepends(modified)
      mp == matching_pairs(a, 1, Len(a), b, 1, Len(b))
      minus == {i \in 1..Len(a) : ~\E pr \in mp : pr[1] = i}
      plus == {j \in 1..Len(b) : ~\E pr \in mp : pr[2] = j}
  IN [fromfile |-> <<"a/", filename>>, tofile |-> <<"b/", filename>>,
      minus |-> [i \in minus |-> a[i]], plus |-> [j \in plus |-> b[j]]]

IdentRank(ident) == CASE ident = "a" -> 1 [] ident = "b" -> 2 [] OTHER -> 3

\* sorted(ids)
RECURSIVE sorted(_)
sorted(ids) ==
  IF ids = {} THEN <<>>
  ELSE LET lo == CHOOSE x \in ids : \A y \in ids : IdentRank(x) <= IdentRank(y)
       IN <<lo>> \o sorted(ids \ {lo})

\* writes_missing without the test of line 166
writes_missing_always(missing_ids) == TRUE

\* line 166: the report is written only when some identifier is missing
writes_missing(missing_ids) == missing_ids # <<>>

\* commits_output without the test of line 155
commits_output_always(dry_run) == TRUE

\* line 155: the merged content is committed only outside the dry run
commits_output(dry_run) == ~dry_run

\* str.lower()
lower(line) == [k \in 1..Len(line) |-> IF line[k] = "Y" THEN "y" ELSE line[k]]

\* line 174: confirm == "y"
is_affirmative(confirm_) == confirm_ = <<"y">>

\* ------------------------------------------------------------- documents
OpenA == <<"<Item", " ", "identifier=a", ">">>
OpenB == <<"<Item", " ", "identifier=b", ">">>
Close == <<"</Item", ">">>

\* source documents the catalog is built from
SrcA == OpenA \o <<"new">> \o Close \o <<"\n">>

SrcAB ==
  OpenA \o <<"\n", "\t", "new", "\n", "\t", "<Fabricate", " ", "more", "</Fabricate", ">",
             "\r", "\n", "\t", "more", "\n">> \o Close
    \o <<"\n">> \o OpenB \o <<"old">> \o Close

SrcRoot ==
  <<"<Item", "s", ">", "\n", " ">> \o OpenB \o <<"new">> \o Close
    \o <<"\n", "</Item", "s", ">">>

SrcPool == {SrcA, SrcAB}

\* target documents of the controller's runs
TarPool ==
  { OpenA \o <<"old">> \o Close \o <<"\n">> \o OpenB \o <<"more">> \o Close \o <<"\n">>,
    <<"\t">> \o OpenA \o <<"\r", "\n", " ", " ", "new", "\r", "\n", "\t">> \o Close,
    <<"<Item", "s", ">", "\n", "\t">> \o OpenB \o <<"old">> \o Close
      \o <<"\n", " ", "\n", "</Item", "s", ">", "\n">> }

\* the pieces target documents of the merge checks are assembled from
Segs ==
  << OpenA \o <<"old">> \o Close,
     OpenA \o <<" ", "new", "\n">> \o Close,
     OpenB \o <<"old">> \o Close,
     <<"<Item", " ", "identifier=a", "/", ">">>,
     <<"<Item", ">", "old">> \o Close,
     <<"<Item", "s", ">">>,
     <<"</Item", "s", ">">>,
     <<"\n">>, <<"\r">>, <<"\f">>, <<" ">>, <<"\t">>, <<"old">> >>

SeqsUpTo(S, n) == UNION {[1..k -> S] : k \in 0..n}

\* what the operator may type at the prompt
Responses == {<<"y">>, <<"Y">>, <<" ", "y", "\t">>, <<"n">>, <<"y", "e", "s">>, <<>>}

\* --------------------------------------------------------------- state
VARIABLES
  pc,           \* where main() stands: "main", "loop", "confirm", "return", "raised"
  DRY_RUN,      \* the module global of line 11
  src_files,    \* SRC_DIR: the contents of its .xml files, in listing order
  tar_files,    \* TAR_DIR: the contents of its .xml files, in listing order
  src_items,    \* main's src_items
  used_ids,     \* main's used_ids
  idx,          \* the position of the for loop of line 143 in tar_files
  diff_files,   \* OUT_DIR: <name>.diff.txt per target file, None when absent
  out_files,    \* OUT_DIR: the mirrored output per target file, None when absent
  missing_file, \* OUT_DIR: MISSING.txt, None when absent
  writes,       \* the open(..., 'w') calls that succeeded, in order: kind, file, DRY_RUN
  unreadable,   \* target files whose read failed in the running pass ([ERROR] lines)
  confirm,      \* main's confirm: the answer, stripped and lowered; None before
  prompts,      \* how many times input() was called
  merge         \* the merge checks: a document, a catalog and two merges in sequence

vars == <<pc, DRY_RUN, src_files, tar_files, src_items, used_ids, idx, diff_files,
          out_files, missing_file, writes, unreadable, confirm, prompts, merge>>

NoMerge == [stage |-> "off"]

Init ==
  /\ pc = "main"
  /\ DRY_RUN = TRUE
  /\ src_files \in SeqsUpTo(SrcPool, MaxSources)
  /\ tar_files \in SeqsUpTo(TarPool, MaxTargets)
  /\ src_items = EmptyItems
  /\ used_ids = {}
  /\ idx = 1
  /\ diff_files = [k \in 1..Len(tar_files) |-> None]
  /\ out_files = [k \in 1..Len(tar_files) |-> None]
  /\ missing_file = None
  /\ writes = <<>>
  /\ unreadable = {}
  /\ confirm = None
  /\ prompts = 0
  /\ merge = NoMerge

\* lines 136-141: build the catalog, reset used_ids, list the targets
Extract ==
  /\ pc = "main"
  /\ \E readable \in [1..Len(src_files) -> BOOLEAN] :
       src_items' = extract_items_from_src(src_files, readable, EmptyItems)
  /\ used_ids' = {}
  /\ idx' = 1
  /\ unreadable' = {}
  /\ pc' = "loop"
  /\ UNCHANGED <<DRY_RUN, src_files, tar_files, diff_files, out_files, missing_file,
                 writes, confirm, prompts, merge>>

\* lines 143-162, one iteration of the loop over tar_files.  readable tells
\* whether update_tar_file can read the target (when not, it logs the error
\* and returns "", "", False); the open(..., 'w') calls of lines 153 and 158
\* either succeed or raise, and nothing in main() catches what they raise.
ProcessTarget ==
  /\ pc = "loop" /\ idx <= Len(tar_files)
  /\ \E readable \in BOOLEAN :
       LET r == update_tar_file(tar_files[idx], readable, src_items, used_ids)
           diff == generate_diff(r.original, r.modified, idx)
           diff_written == [kind |-> "diff", file |-> idx, dry |-> DRY_RUN]
           out_written == [kind |-> "out", file |-> idx, dry |-> DRY_RUN]
       IN /\ used_ids' = r.used
          /\ unreadable' = IF readable THEN unreadable ELSE unreadable \cup {idx}
          /\ \/ \* [SKIP]: nothing to change
                /\ ~r.changed
                /\ idx' = idx + 1
                /\ UNCHANGED <<pc, diff_files, out_files, writes>>
             \/ \* the diff file is written; the merged content too unless
                \* this is the dry run
                /\ r.changed
                /\ diff_files' = [diff_files EXCEPT ![idx] = Some(diff)]
                /\ IF commits_output(DRY_RUN)
                   THEN /\ out_files' = [out_files EXCEPT ![idx] = Some(r.modified)]
                        /\ writes' = writes \o <<diff_written, out_written>>
                   ELSE /\ out_files' = out_files
                        /\ writes' = Append(writes, diff_written)
                /\ idx' = idx + 1
                /\ pc' = pc
             \/ \* open(diff_file, 'w') raises
                /\ r.changed
                /\ pc' = "raised"
                /\ UNCHANGED <<idx, diff_files, out_files, writes>>
             \/ \* the diff file is written, then open(out_path, 'w') raises
                /\ r.changed
                /\ commits_output(DRY_RUN)
                /\ diff_files' = [diff_files EXCEPT ![idx] = Some(diff)]
                /\ writes' = Append(writes, diff_written)
                /\ pc' = "raised"
                /\ UNCHANGED <<idx, out_files>>
  /\ UNCHANGED <<DRY_RUN, src_files, tar_files, src_items, missing_file, confirm,
                 prompts, merge>>

\* lines 164-172: after the loop the missing identifiers are reported; the
\* dry run goes on to the prompt, the other pass returns
ReportMissing ==
  /\ pc = "loop" /\ idx > Len(tar_files)
  /\ LET missing_ids == sorted(DOMAIN src_items \ used_ids) IN
       IF writes_missing(missing_ids)
       THEN /\ missing_file' = Some(missing_ids)
            /\ writes' = Append(writes, [kind |-> "missing", file |-> 0, dry |-> DRY_RUN])
       ELSE UNCHANGED <<missing_file, writes>>
  /\ pc' = IF DRY_RUN THEN "confirm" ELSE "return"
  /\ UNCHANGED <<DRY_RUN, src_files, tar_files, src_items, used_ids, idx, diff_files,
                 out_files, unreadable, confirm, prompts, merge>>

\* lines 166-167: open(MISSING_FILE, 'w') raises; nothing catches it
ReportRaises ==
  /\ pc = "loop" /\ idx > Len(tar_files)
  /\ writes_missing(sorted(DOMAIN src_items \ used_ids))
  /\ pc' = "raised"
  /\ UNCHANGED <<DRY_RUN, src_files, tar_files, src_items, used_ids, idx, diff_files,
                 out_files, missing_file, writes, unreadable, confirm, prompts, merge>>

\* lines 172-176: the prompt; confirm is the answer stripped and lowered,
\* "y" clears DRY_RUN and calls main() again, anything else lets main() return
Confirm ==
  /\ pc = "confirm"
  /\ \E line \in Responses :
       /\ confirm' = Some(lower(strip(line)))
       /\ IF is_affirmative(confirm'[1])
          THEN DRY_RUN' = FALSE /\ pc' = "main"
          ELSE DRY_RUN' = DRY_RUN /\ pc' = "return"
  /\ prompts' = prompts + 1
  /\ UNCHANGED <<src_files, tar_files, src_items, used_ids, idx, diff_files,
                 out_files, missing_file, writes, unreadable, merge>>

Next ==
  \/ Extract
  \/ ProcessTarget
  \/ ReportMissing
  \/ ReportRaises
  \/ Confirm

Spec == Init /\ [][Next]_vars

\* ------------------------------------------------------------ merge checks
\* update_tar_file applied to one document, then to its own output
MergeInit ==
  /\ pc = "return"
  /\ DRY_RUN = TRUE
  /\ src_files \in {<<d>> : d \in SrcPool \cup {SrcRoot}}
  /\ tar_files = <<>>
  /\ src_items = extract_items_from_src(src_files, <<TRUE>>, EmptyItems)
  /\ used_ids = {}
  /\ idx = 1
  /\ diff_files = <<>>
  /\ out_files = <<>>
  /\ missing_file = None
  /\ writes = <<>>
  /\ unreadable = {}
  /\ confirm = None
  /\ prompts = 0
  /\ merge = [stage |-> "build", segs |-> 0, text |-> <<>>]

ctl_vars == <<pc, DRY_RUN, src_files, tar_files, src_items, used_ids, idx, diff_files,
              out_files, missing_file, writes, unreadable, confirm, prompts>>

\* the target document grows by one piece
AddSegment ==
  /\ merge.stage = "build" /\ merge.segs < MaxSegs
  /\ \E k \in 1..Len(Segs) :
       merge' = [merge EXCEPT !.segs = @ + 1, !.text = @ \o Segs[k]]
  /\ UNCHANGED ctl_vars

\* update_tar_file on the document
MergeFirst ==
  /\ merge.stage = "build"
  /\ merge' = [stage |-> "merged", segs |-> merge.segs, text |-> merge.text,
               first |-> update_tar_file(merge.text, TRUE, src_items, {})]
  /\ UNCHANGED ctl_vars

\* update_tar_file on what the first merge returned (written with newline='\n')
MergeSecond ==
  /\ merge.stage = "merged"
  /\ merge' = [stage |-> "remerged", segs |-> merge.segs, text |-> merge.text,
               first |-> merge.first,
               second |-> update_tar_file(merge.first.modified, TRUE, src_items, {})]
  /\ UNCHANGED ctl_vars

MergeNext == AddSegment \/ MergeFirst \/ MergeSecond

SpecMerge == MergeInit /\ [][MergeNext]_vars

\* ------------------------------------------------------------- properties
Wrote(kind, file, dry) ==
  \E j \in 1..Len(writes) : writes[j] = [kind |-> kind, file |-> file, dry |-> dry]

TimesWritten(kind, file, dry) ==
  Cardinality({j \in 1..Len(writes) :
                 writes[j] = [kind |-> kind, file |-> file, dry |-> dry]})

Targets == 1..Len(tar_files)

Terminated == pc \in {"return", "raised"}

Aborted == pc = "return" /\ DRY_RUN

Applied == pc = "return" /\ ~DRY_RUN

\* the opening tag of match m is named exactly Item
ExactItemTag(m) == m.attrs = <<>> \/ ~IsWordStart(Head(m.attrs))

\* an opening Item tag stands in text
ContainsItemOpen(text) ==
  \E p \in 1..Len(text) :
    text[p] = "<Item" /\ (p = Len(text) \/ ~IsWordStart(text[p + 1]))

\* the identifiers of the blocks the extractor yields for text
BlockIdents(text) ==
  LET ms == finditer(text, 1) IN
  {identifier_search(ms[j].attrs) : j \in 1..Len(ms)} \ {NoIdent}

\* the catalog identifiers no block of a target read in this pass carries
Unmatched ==
  {i \in DOMAIN src_items :
     ~\E k \in Targets \ unreadable : i \in BlockIdents(read(tar_files[k]))}

\* target k holds at least one block whose content the catalog replaces
HasChange(k) == item_sub(read(tar_files[k]), 1, src_items, {}).replaced > 0

\* C1: the merged content of a target is never written to its output path
\* during the dry run; an output file is written only after an affirmative
\* answer, and never when the answer is not affirmative.
C1_NoCommitBeforeConfirm ==
  /\ \A j \in 1..Len(writes) :
       writes[j].kind = "out" =>
         /\ ~writes[j].dry
         /\ confirm = Some(<<"y">>)
  /\ DRY_RUN => \A k \in Targets : out_files[k] = None
  /\ (confirm # None /\ confirm # Some(<<"y">>)) =>
       \A k \in Targets : out_files[k] = None

C1_Witness ==
  /\ Applied
  /\ \E k \in Targets : out_files[k] # None /\ Wrote("diff", k, TRUE)

\* C2 as stated: on ABORT only preview diff files have been written, and the
\* missing-identifier report is written by the APPLY pass only.
C2_OnlyDiffsOnAbort ==
  /\ Aborted => \A j \in 1..Len(writes) : writes[j].kind = "diff"
  /\ \A j \in 1..Len(writes) : writes[j].kind = "missing" => ~writes[j].dry

\* C2 amended: on ABORT the files written are the preview diff files and,
\* exactly when some catalog identifier was matched by no target block, the
\* missing-identifier report, which the PREVIEW pass writes too; no output
\* document is written.
C2_AbortLeavesDiffsAndReport ==
  Aborted =>
    /\ \A j \in 1..Len(writes) : writes[j].dry /\ writes[j].kind \in {"diff", "missing"}
    /\ \A k \in Targets : out_files[k] = None
    /\ TimesWritten("missing", 0, TRUE) = (IF Unmatched = {} THEN 0 ELSE 1)
    /\ (missing_file # None) <=> (Unmatched # {})

C2_Witness ==
  /\ Aborted
  /\ missing_file # None
  /\ \E k \in Targets : Wrote("diff", k, TRUE)

\* the identifiers of the well-formed Item blocks of text: a tag named Item
\* that starts a line, with an identifier, its own closing tag and no other
\* opening Item tag before it
CarriedIdents(text) ==
  {identifier_search(ItemMatchAt(text, p).attrs) :
     p \in {q \in 1..Len(text) :
              LET m == ItemMatchAt(text, q) IN
              /\ m # NoMatch
              /\ ExactItemTag(m)
              /\ "/" \notin {m.attrs[j] : j \in 1..Len(m.attrs)}
              /\ ~ContainsItemOpen(m.inner)}} \ {NoIdent}

\* the catalog identifiers no Item block of a target read in this pass carries
Uncarried ==
  {i \in DOMAIN src_items :
     ~\E k \in Targets \ unreadable : i \in CarriedIdents(read(tar_files[k]))}

\* C5: at the end of a pass the missing-identifier report lists exactly the
\* catalog identifiers carried by no Item block of a target document, each
\* once, in sorted order; a block whose content already equals the catalog
\* entry still counts as carrying its identifier.
C5_MissingReportComplete ==
  (pc = "confirm" \/ pc = "return") =>
    IF Uncarried = {}
    THEN ~Wrote("missing", 0, DRY_RUN)
    ELSE /\ missing_file # None
         /\ LET report == missing_file[1] IN
              /\ Len(report) = Cardinality(Uncarried)
              /\ {report[j] : j \in 1..Len(report)} = Uncarried
              /\ \A j \in 1..(Len(report) - 1) :
                   IdentRank(report[j]) < IdentRank(report[j + 1])
         /\ TimesWritten("missing", 0, DRY_RUN) = 1

\* C6 as stated: the APPLY pass writes one output file for every target,
\* changed or not, and a diff file exactly for the changed ones.
C6_OutputForEveryTarget ==
  Applied =>
    \A k \in Targets \ unreadable :
      /\ TimesWritten("out", k, FALSE) = 1
      /\ Wrote("diff", k, FALSE) <=> HasChange(k)

\* C6 amended: the APPLY pass writes an output file only for a target with at
\* least one change, once, right after that target's diff file; unchanged
\* targets get neither.  When the pass ends, the targets with an output file,
\* those with a diff file of this pass and the readable targets with a change
\* are the same.
C6_OutputForChangedOnly ==
  (~DRY_RUN /\ pc # "main") =>
    /\ \A k \in Targets :
         /\ TimesWritten("out", k, FALSE) <= 1
         /\ TimesWritten("diff", k, FALSE) <= 1
         /\ Wrote("out", k, FALSE) => Wrote("diff", k, FALSE) /\ out_files[k] # None
         /\ Wrote("diff", k, FALSE) => HasChange(k) /\ k \notin unreadable
    /\ pc = "return" =>
         \A k \in Targets :
           /\ Wrote("out", k, FALSE) <=> (HasChange(k) /\ k \notin unreadable)
           /\ Wrote("diff", k, FALSE) <=> (HasChange(k) /\ k \notin unreadable)

C6_Witness ==
  /\ Applied
  /\ \E k \in Targets \ unreadable : ~HasChange(k) /\ out_files[k] = None
  /\ \E k \in Targets : HasChange(k) /\ out_files[k] # None

\* C7: a failure on one file never aborts the run: the file is skipped, the
\* remaining targets are processed and the pass reaches its end.
C7_FileFailureNeverAborts ==
  Terminated => idx > Len(tar_files)

\* C8: every run prompts exactly once, after the whole preview pass, goes to
\* APPLY exactly on a case-insensitive "y" and to ABORT otherwise, and never
\* prompts again.
C8_PromptExactlyOnce ==
  /\ prompts <= 1
  /\ (pc = "confirm" \/ prompts = 1) => idx > Len(tar_files)
  /\ confirm # None => (~DRY_RUN <=> confirm = Some(<<"y">>))
  /\ (~DRY_RUN) => prompts = 1
  /\ Terminated => prompts = 1

MergeText == IF merge.stage = "off" THEN <<>> ELSE read(merge.text)

MergeMatches == finditer(MergeText, 1)

\* C3: merging the output of a merge with the same catalog replaces no block
\* and reports no change.
C3_Idempotent ==
  merge.stage = "remerged" =>
    /\ ~merge.second.changed
    /\ item_sub(merge.second.original, 1, src_items, {}).replaced = 0

\* the one replaced block of the document, when every block of it is well
\* formed and exactly one is replaced
WellFormedBlocks ==
  \A j \in 1..Len(MergeMatches) :
    ExactItemTag(MergeMatches[j]) /\ ~ContainsItemOpen(MergeMatches[j].inner)

Replaced ==
  {j \in 1..Len(MergeMatches) :
     replacer(<<>>, MergeMatches[j], src_items, {}).replaced}

\* the number of the line of text position p stands on
LineOf(text, p) == Len(splitlines_keepends(SubSeq(text, 1, p)))

\* C4: when one block differs from the catalog, the merged text differs from
\* the original only between that block's opening and closing tag, and the
\* diff removes only lines of that block.
C4_OnlyInnerRegionChanges ==
  (merge.stage = "merged" /\ WellFormedBlocks /\ Cardinality(Replaced) = 1) =>
    LET m == MergeMatches[CHOOSE j \in Replaced : TRUE]
        o == merge.first.original
        n == merge.first.modified
        h == m.stop - 1
        g == h - Len(m.inner) - 1
        tail == Len(o) - h
        d == generate_diff(o, n, 1)
    IN /\ Len(n) >= g + tail + 1
       /\ SubSeq(n, 1, g) = SubSeq(o, 1, g)
       /\ SubSeq(n, Len(n) - tail, Len(n)) = SubSeq(o, h, Len(o))
       /\ \A i \in DOMAIN d.minus : LineOf(o, g) <= i /\ i <= LineOf(o, h)

\* C9: only a tag named exactly Item opens a block, and every well-formed
\* Item block that starts a line is yielded as a block of its own.
C9_ExactTagName ==
  merge.stage = "merged" =>
    /\ \A j \in 1..Len(MergeMatches) : ExactItemTag(MergeMatches[j])
    /\ \A p \in 1..Len(MergeText) :
         LET m == ItemMatchAt(MergeText, p) IN
         (m # NoMatch /\ ExactItemTag(m) /\ ~ContainsItemOpen(m.inner)
            /\ "/" \notin {m.attrs[j] : j \in 1..Len(m.attrs)}) =>
           \E j \in 1..Len(MergeMatches) : MergeMatches[j].start = p

\* C10: an Item opening tag without a closing tag of its own is never paired
\* with the closing tag of a later block, so the merge never replaces the
\* text of the blocks that follow it.
C10_MalformedNeverSwallows ==
  merge.stage = "merged" =>
    \A j \in Replaced :
      ExactItemTag(MergeMatches[j]) =>
        \A p \in (MergeMatches[j].start + 1)..MergeMatches[j].stop :
          ItemMatchAt(MergeText, p) = NoMatch

====
